---- MODULE Spec2Model ----
(***************************************************************************)
(* Model of the S5i RF generator driver (spirack/S5i_module.py) and the    *)
(* part of the SPI rack transport it uses (spirack/spi_rack.py).           *)
(*                                                                         *)
(* Frequencies are counted in units of 10 kHz (1 unit = 1e4 Hz), so that   *)
(* every product the planner forms fits the model checker's integers:      *)
(* 40 MHz = 4000, 10 MHz = 1000, 4.4 GHz = 440000, 10 kHz = 1.             *)
(* For such inputs the float arithmetic of the code is exact wherever the  *)
(* code truncates, compares or takes a remainder, so it is modelled by     *)
(* integer arithmetic on numerators.                                       *)
(*                                                                         *)
(* A register word is a Python integer that may exceed 32 bits; it is held *)
(* as [hi, lo]: lo is bits 0..15 and hi is everything from bit 16 upwards. *)
(***************************************************************************)
EXTENDS Integers, Sequences, FiniteSets, TLC

\* ------------------------------------------------------------------------
\* Program constants (units of 10 kHz where they are frequencies)

MinFrequency == 4000
MaxFrequency == 440000
VcoMin == 220000
VcoMax == 440000
PrescalerThreshold == 360000
NminHigh == 75
NminLow == 23
IntMax == 65535
RLimit == 1024
MaxPfd == 1
BandSelMax == 255
InternalRef == 1000
DefaultStepsize == 100
NumRegisters == 6
ADF4351Chip == 0
Module == 4

\* a second S5i on the same rack (the docstring's example)
SecondModule == 2

\* enable_output as the constructor defaults it
DefaultEnable == 1
\* chip_mode.py: SPI mode and speed of the chips addressed here
ADF4351Mode == 0
ADF4351Speed == 21
MAX521xChip == 1
MAX521xMode == 1
MAX521xSpeed == 6
ADT7301Chip == 1
ADT7301Mode == 0
ADT7301Speed == 84
ControllerModule == 0

\* spi_rack.ref_frequency before set_ref_frequency was ever called (None)
None == 0 - 1
\* the float inf that numpy's division by zero yields
Inf == 0 - 2

\* ------------------------------------------------------------------------
\* Inputs of the model

\* targets handed to set_frequency / set_frequency_optimally
Frequencies ==
    {3999, 6875, 65537, 100000, 370000, 440001}
\* arguments of set_stepsize (0 makes the division raise)
Stepsizes == {0, 1, 100, 10000}
\* arguments of SPI_rack.set_ref_frequency
RackRefs == {1000, 10000}
\* arguments of use_external_reference
UseFlags == {0, 1}
\* arguments of enable_output_soft (2: a nonzero value other than 1)
EnableFlags == {0, 2}
\* which write_data call of an operation raises (0: none does)
FailPoints == {0, 4}
\* arguments of set_output_power, in tenths (10 is level 1.0)
Levels == {5, 11}
\* constructor arguments: frequency, enable_output, output_level (in tenths)
InitFrequencies == {10000}
InitEnables == {0, 1}
InitLevel == 10
\* the search of set_frequency_optimally on its own: targets and backplane
\* references (1023 is 10.23 MHz: 400 MHz is then exact only at N = Nmax)
SearchFrequencies == {6875, 40000, 65537, 100000}
SearchRefs == {1000, 1023, 10000}

\* ------------------------------------------------------------------------
\* Integer helpers

RECURSIVE Gcd(_, _)
Gcd(a, b) == IF b = 0 THEN a ELSE Gcd(b, a % b)

\* a float value num/den held as a reduced fraction
Ratio(num, den) ==
    LET g == Gcd(num, den) IN [num |-> num \div g, den |-> den \div g]

\* math.ceil(a/b) for positive a, b
CeilDiv(a, b) == (a + b - 1) \div b

\* ------------------------------------------------------------------------
\* Python integers as register words: bit operations

RECURSIVE BitOr(_, _)
BitOr(a, b) ==
    IF a = 0 THEN b
    ELSE IF b = 0 THEN a
    ELSE (IF a % 2 = 1 \/ b % 2 = 1 THEN 1 ELSE 0) + 2 * BitOr(a \div 2, b \div 2)

RECURSIVE BitAnd(_, _)
BitAnd(a, b) ==
    IF a = 0 \/ b = 0 THEN 0
    ELSE (IF a % 2 = 1 /\ b % 2 = 1 THEN 1 ELSE 0) + 2 * BitAnd(a \div 2, b \div 2)

\* x << k
Shl(x, k) ==
    IF k >= 16
    THEN [hi |-> x * 2^(k - 16), lo |-> 0]
    ELSE [hi |-> x \div 2^(16 - k), lo |-> (x % 2^(16 - k)) * 2^k]

\* a small literal as a word
Lit(x) == Shl(x, 0)

\* a | b
Or(a, b) == [hi |-> BitOr(a.hi, b.hi), lo |-> BitOr(a.lo, b.lo)]

\* a & b
And(a, b) == [hi |-> BitAnd(a.hi, b.hi), lo |-> BitAnd(a.lo, b.lo)]

\* (w >> k) & 1
Bit(w, k) == IF k >= 16 THEN (w.hi \div 2^(k - 16)) % 2 ELSE (w.lo \div 2^k) % 2

\* bits from..to of w as a number (to - from < 16)
RECURSIVE Field(_, _, _)
Field(w, from, to) ==
    IF to < from THEN 0 ELSE Bit(w, from) + 2 * Field(w, from + 1, to)

\* ------------------------------------------------------------------------
\* Planning steps shared by set_frequency and set_frequency_optimally

\* the loop "for n in range(0,7): ... break" with its fallback div = 0
VcoHits(frequency) ==
    {n \in 0..6 : 2^n * frequency >= VcoMin /\ 2^n * frequency <= VcoMax}

\* the loop without its break: the last hit wins
VcoDividerNoBreak(frequency) ==
    IF VcoHits(frequency) = {} THEN 0
    ELSE CHOOSE n \in VcoHits(frequency) : \A m \in VcoHits(frequency) : n >= m

VcoDivider(frequency) ==
    IF VcoHits(frequency) = {} THEN 0
    ELSE CHOOSE n \in VcoHits(frequency) : \A m \in VcoHits(frequency) : n <= m

Prescaler(frequency) == IF frequency >= PrescalerThreshold THEN 1 ELSE 0

Nmin(frequency) == IF frequency >= PrescalerThreshold THEN NminHigh ELSE NminLow

\* the band select computation without lines 169-170: no cap at 255
BandSelectUncapped(ref, R) ==
    IF ref > MaxPfd * R THEN CeilDiv(ref, MaxPfd * R) ELSE 1

\* band select clock divider from fpfd = ref / R
BandSelect(ref, R) ==
    LET uncapped == IF ref > MaxPfd * R THEN CeilDiv(ref, MaxPfd * R) ELSE 1
    IN  IF uncapped > BandSelMax THEN BandSelMax ELSE uncapped

\* ------------------------------------------------------------------------
\* The search of set_frequency_optimally

\* Nmax = int(1023 * frequency / fref)
Nmax(frequency, fref) == (1023 * frequency) \div fref

\* n = np.arange(Nmin, Nmax): Nmax itself is not a candidate
Candidates(frequency, fref) == Nmin(frequency)..(Nmax(frequency, fref) - 1)

\* |R_t - around(R_t)| for R_t = n*fref/frequency, as a numerator over frequency
Deviation(n, frequency, fref) ==
    LET r == (n * fref) % frequency
    IN  IF 2 * r <= frequency THEN r ELSE frequency - r

\* np.around(n*fref/frequency): to nearest, halves to the even neighbour
Around(n, frequency, fref) ==
    LET q == (n * fref) \div frequency
        r == (n * fref) % frequency
    IN  IF 2 * r < frequency THEN q
        ELSE IF 2 * r > frequency THEN q + 1
        ELSE IF q % 2 = 0 THEN q ELSE q + 1

\* index = np.argmin(...): the first candidate of least deviation
ArgMin(frequency, fref) ==
    LET devs == {Deviation(n, frequency, fref) : n \in Candidates(frequency, fref)}
        least == CHOOSE d \in devs : \A e \in devs : d <= e
    IN  CHOOSE n \in Candidates(frequency, fref) :
            /\ Deviation(n, frequency, fref) = least
            /\ \A m \in Nmin(frequency)..(n - 1) : Deviation(m, frequency, fref) # least

\* INT and R as lines 220-226 leave them
OptimalPlan(frequency, fref) ==
    LET INT == ArgMin(frequency, fref)
    IN  [INT |-> INT, R |-> Around(INT, frequency, fref)]

\* the plans of every (target, reference) pair the inputs can form, searched
\* once; set_frequency_optimally looks its plan up here
OptimalPlans ==
    {<<p[1], p[2], OptimalPlan(p[1], p[2])>> :
        p \in {q \in (Frequencies \X RackRefs) \cup (SearchFrequencies \X SearchRefs) :
                  /\ q[1] >= MinFrequency /\ q[1] <= MaxFrequency
                  /\ Nmax(q[1], q[2]) > Nmin(q[1])}}

PlanFor(frequency, fref) ==
    (CHOOSE t \in OptimalPlans : t[1] = frequency /\ t[2] = fref)[3]

\* ------------------------------------------------------------------------
\* Register encodings

\* REG4 put together without its address literal 4
EncodeReg4NoAddress(div, band_sel, status) ==
    Or(Or(Or(Shl(div, 20), Shl(band_sel, 12)), Shl(status, 5)), Shl(3, 3))

\* (div<<20) | (band_sel<<12) | (output_status<<5) | (3<<3) | 4
EncodeReg4(div, band_sel, status) ==
    Or(Or(Or(Or(Shl(div, 20), Shl(band_sel, 12)), Shl(status, 5)), Shl(3, 3)), Lit(4))

\* (R<<14) | (1<<13) | (7<<9) | (1<<8) | (1<<7) | (1<<6) | 2
EncodeReg2(R) ==
    Or(Or(Or(Or(Or(Or(Shl(R, 14), Shl(1, 13)), Shl(7, 9)), Shl(1, 8)), Shl(1, 7)),
          Shl(1, 6)), Lit(2))

\* set_frequency: (prescaler<<27) | (1<<15) | (2<<3) | 1
EncodeReg1Grid(prescaler) ==
    Or(Or(Or(Shl(prescaler, 27), Shl(1, 15)), Shl(2, 3)), Lit(1))

\* set_frequency_optimally: (prescaler<<27) | (2<<3) | 1
EncodeReg1Optimal(prescaler) == Or(Or(Shl(prescaler, 27), Shl(2, 3)), Lit(1))

\* (INT<<15)
EncodeReg0(INT) == Shl(INT, 15)

\* registers after __init__ lines 46-50, before the first set_frequency
FreshRegisters ==
    [i \in 0..(NumRegisters - 1) |->
        IF i = 3 THEN Or(Or(Shl(1, 22), Shl(1, 21)), Lit(3))
        ELSE IF i = 5 THEN Or(Or(Shl(1, 22), Shl(3, 19)), Lit(5))
        ELSE Lit(0)]

\* the dynamic fields of the six words: REG0 bits 15..30 (INT), REG1 bit 27
\* (prescaler), REG2 bits 14..23 (R), REG4 bit 5 (output enable), bits 12..19
\* (band select) and bits 20..22 (divider)
DynamicMask ==
    [i \in 0..(NumRegisters - 1) |->
        IF i = 0 THEN [hi |-> 32767, lo |-> 32768]
        ELSE IF i = 1 THEN [hi |-> 2048, lo |-> 0]
        ELSE IF i = 2 THEN [hi |-> 255, lo |-> 49152]
        ELSE IF i = 4 THEN [hi |-> 127, lo |-> 61472]
        ELSE [hi |-> 0, lo |-> 0]]

\* a & ~b
AndNot(a, b) ==
    [hi |-> a.hi - BitAnd(a.hi, b.hi), lo |-> a.lo - BitAnd(a.lo, b.lo)]

\* every bit of the six words outside the dynamic fields
StaticBits(regs) == [i \in 0..(NumRegisters - 1) |-> AndNot(regs[i], DynamicMask[i])]

\* ------------------------------------------------------------------------
\* Transport calls

\* the four bytes of a word, lowest byte first
BytesLittleEndian(reg) ==
    <<reg.lo % 256, reg.lo \div 256, reg.hi % 256, (reg.hi \div 256) % 256>>

\* the four bytes write_registers cuts a word into
Bytes(reg) == <<(reg.hi \div 256) % 256, reg.hi % 256, reg.lo \div 256, reg.lo % 256>>

\* the SPI mode and speed the S5i hands to write_data for each of its chips
ChipMode(chip) == IF chip = ADF4351Chip THEN ADF4351Mode ELSE MAX521xMode
ChipSpeed(chip) == IF chip = ADF4351Chip THEN ADF4351Speed ELSE MAX521xSpeed

\* one completed spi_rack.write_data(module, chip, mode, speed, data)
WriteData(chip, data) ==
    [module |-> Module, chip |-> chip, mode |-> ChipMode(chip),
     speed |-> ChipSpeed(chip), data |-> data]

\* write_registers catching the exception of write_data and sending the
\* word again, then going on
WriteRegistersRetry(regs, fail) ==
    LET again == IF fail = 0 THEN <<>>
                 ELSE <<WriteData(ADF4351Chip, Bytes(regs[NumRegisters - fail]))>>
    IN  [k \in 1..(IF fail = 0 THEN 0 ELSE fail - 1) |->
            WriteData(ADF4351Chip, Bytes(regs[NumRegisters - k]))]
        \o again
        \o [k \in 1..(IF fail = 0 THEN NumRegisters ELSE NumRegisters - fail + 1) |->
               WriteData(ADF4351Chip,
                         Bytes(regs[IF fail = 0 THEN NumRegisters - k
                                    ELSE NumRegisters - fail - k + 1]))]

\* write_registers without reversed(): REG0 first
WriteRegistersAscending(regs, fail) ==
    LET n == IF fail = 0 THEN NumRegisters ELSE fail - 1
    IN  [k \in 1..n |-> WriteData(ADF4351Chip, Bytes(regs[k - 1]))]

\* the write_data calls write_registers completes when call number fail raises
\* (fail = 0: none raises): REG5 first, REG0 last
WriteRegisters(regs, fail) ==
    LET n == IF fail = 0 THEN NumRegisters ELSE fail - 1
    IN  [k \in 1..n |-> WriteData(ADF4351Chip, Bytes(regs[NumRegisters - k]))]

\* how a call that reaches write_registers ends
WriteResult(fail) == IF fail = 0 THEN "ok" ELSE "HardwareError"

\* ------------------------------------------------------------------------
\* State

VARIABLES
    registers,      \* S5i_module.registers: the six ADF4351 words, 0..5
    rf_frequency,   \* S5i_module.rf_frequency, a fraction num/den (or Inf)
    stepsize,       \* S5i_module.stepsize
    ref_frequency,  \* S5i_module.ref_frequency (None when copied unset)
    use_external,   \* S5i_module.use_external
    output_status,  \* S5i_module.output_status
    rack_ref,       \* SPI_rack.ref_frequency (None until set_ref_frequency)
    sent,           \* the write_data calls completed by the latest call
    last,           \* the latest call: its name, argument and how it ended
    repeated,       \* the latest call was set_frequency, and so was the call
                    \* before it, with the same argument
    plan,           \* the latest plan that passed validation
    init_static,    \* the static bits of registers as the constructor left them
    returned,       \* what the latest call handed back to its caller (None:
                    \* the method ends without a return statement, or raised)
    active,         \* SPI_rack.active_module, active_chip, active_speed
    tlock,          \* SPI_rack._tlock: the thread holding it, 0 when free
    pc,             \* where each thread stands in write_data / read_data
    req,            \* the arguments of each thread's call
    wire,           \* frames written to the serial port, not yet handled
    inbuf,          \* replies of the controller, not yet read
    ctrl,           \* what the controller has active (the latest 'c' frame)
    handled,        \* the latest data frame the controller handled, and what
                    \* it had active then
    got,            \* for each thread, whose request the reply it read answers
    received,       \* for each module, the data frames its chip was handed
    loop            \* for each thread, its set_frequency calls and the
                    \* iterator of write_registers

vars == <<registers, rf_frequency, stepsize, ref_frequency, use_external,
          output_status, rack_ref, sent, last, repeated, plan, init_static,
          returned>>

\* the transport: the SPI_rack object, the serial line and the controller
busVars == <<active, tlock, pc, req, wire, inbuf, ctrl, handled, got, received, loop>>

\* the threads sharing the rack; 0 is the thread that constructed the objects
Threads == {1, 2}

\* what a write_data / read_data caller names: module, chip, mode, speed
Target(module, chip, mode, speed) ==
    [module |-> module, chip |-> chip, mode |-> mode, speed |-> speed]

\* the part of a target that write_data compares with the cache (line 110)
Cached(target) == [module |-> target.module, chip |-> target.chip, speed |-> target.speed]

\* the transport after one thread completed the write_data calls seq with no
\* other thread running: the cache and the controller are at the target of the
\* last call and the line is drained
Bus(seq) ==
    /\ active' = IF seq = <<>> THEN active
                 ELSE Cached(seq[Len(seq)])
    /\ ctrl' = IF seq = <<>> THEN ctrl
               ELSE IF active = Cached(seq[Len(seq)]) THEN ctrl
               ELSE Target(seq[Len(seq)].module, seq[Len(seq)].chip,
                           seq[Len(seq)].mode, seq[Len(seq)].speed)
    /\ handled' = IF seq = <<>> THEN handled
                  ELSE [by |-> 0, kind |-> "w", target |-> Cached(seq[Len(seq)]),
                        at |-> Cached(seq[Len(seq)]),
                        mode |-> seq[Len(seq)].mode,
                        atmode |-> IF active = Cached(seq[Len(seq)]) THEN ctrl.mode
                                   ELSE seq[Len(seq)].mode]
    /\ UNCHANGED <<tlock, pc, req, wire, inbuf, got, received, loop>>

Call(op, arg, result) == [op |-> op, arg |-> arg, result |-> result]

\* the call now made is set_frequency(arg) straight after set_frequency(arg)
Repeats(op, arg) == op = "set_frequency" /\ last.op = "set_frequency" /\ last.arg = arg

\* a call that raises before it changed or sent anything
Raises(op, arg, exc) ==
    /\ last' = Call(op, arg, exc)
    /\ repeated' = Repeats(op, arg)
    /\ returned' = None
    /\ sent' = <<>>
    /\ UNCHANGED <<registers, rf_frequency, stepsize, ref_frequency, use_external,
                   output_status, rack_ref, plan, init_static>>
    /\ UNCHANGED busVars

\* ------------------------------------------------------------------------
\* set_frequency

\* how the checks of set_frequency end, in the order the code makes them
GridResult(frequency, step, ref) ==
    IF frequency > MaxFrequency \/ frequency < MinFrequency THEN "ValueError"
    ELSE IF ref = None THEN "TypeError"
    ELSE IF frequency % step # 0 THEN "ValueError"
    ELSE IF frequency \div step < Nmin(frequency) \/ frequency \div step > IntMax
         THEN "ValueError"
    ELSE IF ref \div step = 0 THEN "ZeroDivisionError"
    ELSE "ok"

\* set_frequency with line 157 dividing by the reference instead of the
\* stepsize
GridPlanIntFromReference(frequency, step, ref) ==
    [div |-> VcoDivider(frequency),
     prescaler |-> Prescaler(frequency),
     R |-> ref \div step,
     INT |-> frequency \div ref,
     band_sel |-> BandSelect(ref, ref \div step)]

\* div, prescaler, R, INT and band_sel of set_frequency
GridPlan(frequency, step, ref) ==
    [div |-> VcoDivider(frequency),
     prescaler |-> Prescaler(frequency),
     R |-> ref \div step,
     INT |-> frequency \div step,
     band_sel |-> BandSelect(ref, ref \div step)]

\* lines 174-180 with the REG2 word stored at index 3
GridRegistersWrongIndex(regs, p, status) ==
    [regs EXCEPT ![4] = EncodeReg4(p.div, p.band_sel, status),
                 ![3] = EncodeReg2(p.R),
                 ![1] = EncodeReg1Grid(p.prescaler),
                 ![0] = EncodeReg0(p.INT)]

\* lines 174-180
GridRegisters(regs, p, status) ==
    [regs EXCEPT ![4] = EncodeReg4(p.div, p.band_sel, status),
                 ![2] = EncodeReg2(p.R),
                 ![1] = EncodeReg1Grid(p.prescaler),
                 ![0] = EncodeReg0(p.INT)]

\* set_frequency with line 172 moved above the checks: rf_frequency is stored
\* before the target is validated
SetFrequencyStoresFirst(frequency) ==
    LET result == GridResult(frequency, stepsize, ref_frequency)
        p == GridPlan(frequency, stepsize, ref_frequency)
        regs == GridRegisters(registers, p, output_status)
    IN  /\ rf_frequency' = Ratio(frequency, 1)
        /\ repeated' = Repeats("set_frequency", frequency)
        /\ returned' = None
        /\ IF result # "ok"
           THEN /\ last' = Call("set_frequency", frequency, result)
                /\ sent' = <<>>
                /\ UNCHANGED <<registers, stepsize, ref_frequency, use_external,
                               output_status, rack_ref, plan, init_static>>
                /\ Bus(sent')
           ELSE /\ registers' = regs
                /\ plan' = p
                /\ \E fail \in FailPoints :
                       /\ sent' = WriteRegisters(regs, fail)
                       /\ last' = Call("set_frequency", frequency, WriteResult(fail))
                /\ UNCHANGED <<stepsize, ref_frequency, use_external, output_status,
                               rack_ref, init_static>>
                /\ Bus(sent')

\* set_frequency computing INT from self.rf_frequency before line 172 has
\* updated it: the words encode the target of the call before
SetFrequencyStaleInt(frequency) ==
    LET result == GridResult(frequency, stepsize, ref_frequency)
        p == [GridPlan(frequency, stepsize, ref_frequency)
                 EXCEPT !.INT = (rf_frequency.num \div rf_frequency.den) \div stepsize]
        regs == GridRegisters(registers, p, output_status)
    IN  IF result # "ok"
        THEN Raises("set_frequency", frequency, result)
        ELSE /\ rf_frequency' = Ratio(frequency, 1)
             /\ registers' = regs
             /\ plan' = p
             /\ repeated' = Repeats("set_frequency", frequency)
             /\ returned' = None
             /\ \E fail \in FailPoints :
                    /\ sent' = WriteRegisters(regs, fail)
                    /\ last' = Call("set_frequency", frequency, WriteResult(fail))
             /\ UNCHANGED <<stepsize, ref_frequency, use_external, output_status,
                            rack_ref, init_static>>
             /\ Bus(sent')

\* set_frequency when the write_data call numbered by some element of fails
\* raises (0: none does)
SetFrequencyFailing(frequency, fails) ==
    LET result == GridResult(frequency, stepsize, ref_frequency)
        p == GridPlan(frequency, stepsize, ref_frequency)
        regs == GridRegisters(registers, p, output_status)
    IN  IF result # "ok"
        THEN Raises("set_frequency", frequency, result)
        ELSE /\ rf_frequency' = Ratio(frequency, 1)
             /\ registers' = regs
             /\ plan' = p
             /\ repeated' = Repeats("set_frequency", frequency)
             /\ returned' = None
             /\ \E fail \in fails :
                    /\ sent' = WriteRegisters(regs, fail)
                    /\ last' = Call("set_frequency", frequency, WriteResult(fail))
             /\ UNCHANGED <<stepsize, ref_frequency, use_external, output_status,
                            rack_ref, init_static>>
             /\ Bus(sent')

SetFrequency(frequency) == SetFrequencyFailing(frequency, FailPoints)

\* ------------------------------------------------------------------------
\* set_frequency_optimally

\* how set_frequency_optimally ends up to line 234, in the order of the code
OptimalResult(frequency, fref) ==
    IF frequency > MaxFrequency \/ frequency < MinFrequency THEN "ValueError"
    ELSE IF fref = None THEN "TypeError"
    ELSE IF Nmax(frequency, fref) <= Nmin(frequency) THEN "ValueError"
    ELSE IF PlanFor(frequency, fref).R = 0 THEN "ZeroDivisionError"
    ELSE "ok"

\* the reference set_frequency_optimally plans with (line 199)
OptimalReference == rack_ref

\* div, prescaler, R, INT and band_sel of set_frequency_optimally
FullOptimalPlan(frequency, fref) ==
    [div |-> VcoDivider(frequency),
     prescaler |-> Prescaler(frequency),
     R |-> PlanFor(frequency, fref).R,
     INT |-> PlanFor(frequency, fref).INT,
     band_sel |-> BandSelect(fref, PlanFor(frequency, fref).R)]

\* lines 241-247 without the REG2 assignment: R stays that of the plan before
OptimalRegistersKeepR(regs, p, status) ==
    [regs EXCEPT ![4] = EncodeReg4(p.div, p.band_sel, status),
                 ![1] = EncodeReg1Optimal(p.prescaler),
                 ![0] = EncodeReg0(p.INT)]

\* lines 241-247
OptimalRegisters(regs, p, status) ==
    [regs EXCEPT ![4] = EncodeReg4(p.div, p.band_sel, status),
                 ![2] = EncodeReg2(p.R),
                 ![1] = EncodeReg1Optimal(p.prescaler),
                 ![0] = EncodeReg0(p.INT)]

SetFrequencyOptimallyFailing(frequency, fails) ==
    LET fref == OptimalReference
        result == OptimalResult(frequency, fref)
        p == FullOptimalPlan(frequency, fref)
        regs == OptimalRegisters(registers, p, output_status)
    IN  IF result = "ZeroDivisionError"
        THEN \* line 231 has stored inf before line 234 divides by R = 0
             /\ rf_frequency' = Inf
             /\ last' = Call("set_frequency_optimally", frequency, result)
             /\ repeated' = FALSE
             /\ returned' = None
             /\ sent' = <<>>
             /\ UNCHANGED <<registers, stepsize, ref_frequency, use_external,
                            output_status, rack_ref, plan, init_static>>
             /\ Bus(sent')
        ELSE IF result # "ok"
        THEN Raises("set_frequency_optimally", frequency, result)
        ELSE /\ rf_frequency' = Ratio(p.INT * fref, p.R)
             /\ registers' = regs
             /\ plan' = p
             /\ repeated' = FALSE
             /\ returned' = None
             /\ \E fail \in fails :
                    /\ sent' = WriteRegisters(regs, fail)
                    /\ last' = Call("set_frequency_optimally", frequency,
                                    WriteResult(fail))
             /\ UNCHANGED <<stepsize, ref_frequency, use_external, output_status,
                            rack_ref, init_static>>
             /\ Bus(sent')

SetFrequencyOptimally(frequency) ==
    SetFrequencyOptimallyFailing(frequency, FailPoints)

\* ------------------------------------------------------------------------
\* set_stepsize, use_external_reference, enable_output_soft, set_output_power

\* set_stepsize without the R < 1024 half of line 118
StepsizeResultNoLimit(step, ref) ==
    IF ref = None THEN "TypeError"
    ELSE IF step = 0 THEN "ZeroDivisionError"
    ELSE IF ref % step = 0 THEN "ok"
    ELSE "ValueError"

StepsizeResult(step, ref) ==
    IF ref = None THEN "TypeError"
    ELSE IF step = 0 THEN "ZeroDivisionError"
    ELSE IF ref % step = 0 /\ ref \div step < RLimit THEN "ok"
    ELSE "ValueError"

SetStepsize(step) ==
    LET result == StepsizeResult(step, ref_frequency)
    IN  IF result # "ok"
        THEN Raises("set_stepsize", step, result)
        ELSE /\ stepsize' = step
             /\ last' = Call("set_stepsize", step, "ok")
             /\ repeated' = FALSE
             /\ returned' = None
             /\ sent' = <<>>
             /\ UNCHANGED <<registers, rf_frequency, ref_frequency, use_external,
                            output_status, rack_ref, plan, init_static>>
             /\ Bus(sent')

UseExternalReference(use) ==
    /\ use_external' = IF use = 1 THEN 1 ELSE 0
    /\ ref_frequency' = IF use = 1 THEN rack_ref ELSE InternalRef
    /\ last' = Call("use_external_reference", use, "ok")
    /\ repeated' = FALSE
    /\ returned' = None
    /\ sent' = <<>>
    /\ UNCHANGED <<registers, rf_frequency, stepsize, output_status, rack_ref,
                   plan, init_static>>
    /\ Bus(sent')

\* 0xFFFFFFDF
OutputEnableMask == [hi |-> 65535, lo |-> 65503]

\* lines 92-95
OutputRegisters(regs, enable) ==
    [regs EXCEPT ![4] = Or(And(@, OutputEnableMask), Shl(IF enable # 0 THEN 1 ELSE 0, 5))]

EnableOutputSoftFailing(enable, fails) ==
    LET regs == OutputRegisters(registers, enable)
    IN  /\ registers' = regs
        /\ repeated' = FALSE
        /\ returned' = None
        /\ \E fail \in fails :
               /\ sent' = WriteRegisters(regs, fail)
               /\ output_status' = IF fail = 0 THEN (IF enable # 0 THEN 1 ELSE 0)
                                   ELSE output_status
               /\ last' = Call("enable_output_soft", enable, WriteResult(fail))
        /\ UNCHANGED <<rf_frequency, stepsize, ref_frequency, use_external,
                       rack_ref, plan, init_static>>
        /\ Bus(sent')

EnableOutputSoft(enable) == EnableOutputSoftFailing(enable, FailPoints)

\* the one MAX521x write of set_output_power, level in tenths
PowerWrite(level) ==
    LET value == (65535 * level) \div 10
    IN  WriteData(1, <<64 + (value \div 1024), (value \div 4) % 256, (value % 4) * 64>>)

SetOutputPower(level) ==
    IF level < 0 \/ level > 10
    THEN Raises("set_output_power", level, "ValueError")
    ELSE /\ repeated' = FALSE
         /\ returned' = None
         /\ \E fail \in {0, 1} :
                /\ sent' = IF fail = 0 THEN <<PowerWrite(level)>> ELSE <<>>
                /\ last' = Call("set_output_power", level, WriteResult(fail))
         /\ UNCHANGED <<registers, rf_frequency, stepsize, ref_frequency,
                        use_external, output_status, rack_ref, plan, init_static>>
         /\ Bus(sent')

\* SPI_rack.set_ref_frequency
SetRefFrequency(frequency) ==
    /\ rack_ref' = frequency
    /\ last' = Call("set_ref_frequency", frequency, "ok")
    /\ repeated' = FALSE
    /\ returned' = None
    /\ sent' = <<>>
    /\ UNCHANGED <<registers, rf_frequency, stepsize, ref_frequency, use_external,
                   output_status, plan, init_static>>
    /\ Bus(sent')

\* the transport once the constructor has returned: its last write_data call
\* went to the ADF4351, nothing is in flight and no other thread has run yet
BusAfterInit ==
    /\ active = Cached(Target(Module, ADF4351Chip, ADF4351Mode, ADF4351Speed))
    /\ ctrl = Target(Module, ADF4351Chip, ADF4351Mode, ADF4351Speed)
    /\ handled = [by |-> 0, kind |-> "w",
                  target |-> Cached(Target(Module, ADF4351Chip, ADF4351Mode, ADF4351Speed)),
                  at |-> Cached(Target(Module, ADF4351Chip, ADF4351Mode, ADF4351Speed)),
                  mode |-> ADF4351Mode, atmode |-> ADF4351Mode]
    /\ tlock = 0
    /\ pc = [t \in Threads |-> "idle"]
    /\ req = [t \in Threads |-> None]
    /\ wire = <<>>
    /\ inbuf = <<>>
    /\ got = [t \in Threads |-> 0]
    /\ received = [m \in {Module, SecondModule} |-> <<>>]
    /\ loop = [t \in Threads |-> [calls |-> 0, todo |-> <<>>, done |-> <<>>]]

\* ------------------------------------------------------------------------
\* Construction: SPI_rack(...) and then S5i_module(spi_rack, module, frequency,
\* enable_output, output_level), which ends in set_frequency(frequency)

Init ==
    \E frequency \in InitFrequencies, enable \in InitEnables :
        LET p == GridPlan(frequency, DefaultStepsize, InternalRef)
            regs == GridRegisters(FreshRegisters, p, enable)
        IN  /\ GridResult(frequency, DefaultStepsize, InternalRef) = "ok"
            /\ registers = regs
            /\ init_static = StaticBits(regs)
            /\ rf_frequency = Ratio(frequency, 1)
            /\ stepsize = DefaultStepsize
            /\ ref_frequency = InternalRef
            /\ use_external = 0
            /\ output_status = enable
            /\ rack_ref = None
            /\ plan = p
            /\ sent = <<PowerWrite(InitLevel)>> \o WriteRegisters(regs, 0)
            /\ last = Call("__init__", frequency, "ok")
            /\ repeated = FALSE
            /\ returned = None
            /\ BusAfterInit

Next ==
    \/ \E frequency \in Frequencies : SetFrequency(frequency)
    \/ \E frequency \in Frequencies : SetFrequencyOptimally(frequency)
    \/ \E step \in Stepsizes : SetStepsize(step)
    \/ \E use \in UseFlags : UseExternalReference(use)
    \/ \E enable \in EnableFlags : EnableOutputSoft(enable)
    \/ \E level \in Levels : SetOutputPower(level)
    \/ \E frequency \in RackRefs : SetRefFrequency(frequency)

Spec == Init /\ [][Next]_vars

\* ------------------------------------------------------------------------
\* The search of set_frequency_optimally on its own: a rack whose backplane
\* reference was set before the module was constructed, then only
\* set_ref_frequency and set_frequency_optimally calls

SearchInit ==
    \E fref \in SearchRefs, frequency \in InitFrequencies, enable \in InitEnables :
        LET p == GridPlan(frequency, DefaultStepsize, InternalRef)
            regs == GridRegisters(FreshRegisters, p, enable)
        IN  /\ GridResult(frequency, DefaultStepsize, InternalRef) = "ok"
            /\ registers = regs
            /\ init_static = StaticBits(regs)
            /\ rf_frequency = Ratio(frequency, 1)
            /\ stepsize = DefaultStepsize
            /\ ref_frequency = InternalRef
            /\ use_external = 0
            /\ output_status = enable
            /\ rack_ref = fref
            /\ plan = p
            /\ sent = <<PowerWrite(InitLevel)>> \o WriteRegisters(regs, 0)
            /\ last = Call("__init__", frequency, "ok")
            /\ repeated = FALSE
            /\ returned = None
            /\ BusAfterInit

SearchNext ==
    \/ \E frequency \in SearchFrequencies : SetFrequencyOptimally(frequency)
    \/ \E frequency \in SearchRefs : SetRefFrequency(frequency)

SearchSpec == SearchInit /\ [][SearchNext]_vars

\* ------------------------------------------------------------------------
\* write_registers with the transport failing at any of its six write_data
\* calls: the three operations that end in write_registers, on a rack whose
\* backplane reference can be set

\* call number 1..6 raises, or none (0)
AnyFailPoint == 0..NumRegisters

WriteFrequencies == {6875, 65537, 100000, 370000}

WriteNext ==
    \/ \E frequency \in WriteFrequencies : SetFrequencyFailing(frequency, AnyFailPoint)
    \/ \E frequency \in WriteFrequencies :
           SetFrequencyOptimallyFailing(frequency, AnyFailPoint)
    \/ \E enable \in EnableFlags : EnableOutputSoftFailing(enable, AnyFailPoint)
    \/ \E frequency \in RackRefs : SetRefFrequency(frequency)

WriteSpec == Init /\ [][WriteNext]_<<vars, busVars>>

\* ------------------------------------------------------------------------
\* Threads sharing one SPI_rack: write_data and read_data step by step, the
\* serial line and the controller behind it. read() is taken to return once
\* the reply has arrived (no timeout expires).

\* frames the serial port buffers before write() blocks
MaxWire == 2

\* the targets the threads address: the controller's temperature sensor and
\* the two chips of the S5i
BusTargets ==
    {Target(ControllerModule, ADT7301Chip, ADT7301Mode, ADT7301Speed),
     Target(Module, ADF4351Chip, ADF4351Mode, ADF4351Speed),
     Target(Module, MAX521xChip, MAX521xMode, MAX521xSpeed)}

\* "w": write_data, "r": read_data
BusKinds == {"w", "r"}

Frame(kind, target, t, data) == [kind |-> kind, target |-> target, by |-> t, data |-> data]

\* a thread enters write_data or read_data for one of the targets
BusCallAmong(t, targets) ==
    /\ pc[t] = "idle"
    /\ \E kind \in BusKinds, target \in targets :
           req' = [req EXCEPT ![t] = [kind |-> kind, target |-> target, data |-> <<>>]]
    /\ pc' = [pc EXCEPT ![t] = "acquire"]
    /\ UNCHANGED <<active, tlock, wire, inbuf, ctrl, handled, got, received, loop>>
    /\ UNCHANGED vars

BusCall(t) == BusCallAmong(t, BusTargets)

\* NoLock.__enter__: the thread goes on without waiting
AcquireNoLock(t) ==
    /\ pc[t] = "acquire"
    /\ pc' = [pc EXCEPT ![t] = "check"]
    /\ UNCHANGED <<active, tlock, req, wire, inbuf, ctrl, handled, got, received, loop>>
    /\ UNCHANGED vars

\* with self._tlock: threading.Lock.__enter__
Acquire(t) ==
    /\ pc[t] = "acquire"
    /\ tlock = 0
    /\ tlock' = t
    /\ pc' = [pc EXCEPT ![t] = "check"]
    /\ UNCHANGED <<active, req, wire, inbuf, ctrl, handled, got, received, loop>>
    /\ UNCHANGED vars

\* lines 110 / 130: is the target the cached one
CheckActive(t) ==
    /\ pc[t] = "check"
    /\ pc' = [pc EXCEPT ![t] = IF active # Cached(req[t].target) THEN "select"
                               ELSE "frame"]
    /\ UNCHANGED <<active, tlock, req, wire, inbuf, ctrl, handled, got, received, loop>>
    /\ UNCHANGED vars

\* _set_active line 92: the 'c' frame
SendSelect(t) ==
    /\ pc[t] = "select"
    /\ Len(wire) < MaxWire
    /\ wire' = Append(wire, Frame("c", req[t].target, t, <<>>))
    /\ pc' = [pc EXCEPT ![t] = "set_module"]
    /\ UNCHANGED <<active, tlock, req, inbuf, ctrl, handled, got, received, loop>>
    /\ UNCHANGED vars

\* _set_active lines 94, 95, 96, one assignment each
SetActiveModule(t) ==
    /\ pc[t] = "set_module"
    /\ active' = [active EXCEPT !.module = req[t].target.module]
    /\ pc' = [pc EXCEPT ![t] = "set_chip"]
    /\ UNCHANGED <<tlock, req, wire, inbuf, ctrl, handled, got, received, loop>>
    /\ UNCHANGED vars

SetActiveChip(t) ==
    /\ pc[t] = "set_chip"
    /\ active' = [active EXCEPT !.chip = req[t].target.chip]
    /\ pc' = [pc EXCEPT ![t] = "set_speed"]
    /\ UNCHANGED <<tlock, req, wire, inbuf, ctrl, handled, got, received, loop>>
    /\ UNCHANGED vars

SetActiveSpeed(t) ==
    /\ pc[t] = "set_speed"
    /\ active' = [active EXCEPT !.speed = req[t].target.speed]
    /\ pc' = [pc EXCEPT ![t] = "frame"]
    /\ UNCHANGED <<tlock, req, wire, inbuf, ctrl, handled, got, received, loop>>
    /\ UNCHANGED vars

\* lines 113-115 / 134-135: the 'w' or 'r' frame
SendFrame(t) ==
    /\ pc[t] = "frame"
    /\ Len(wire) < MaxWire
    /\ wire' = Append(wire, Frame(req[t].kind, req[t].target, t, req[t].data))
    /\ pc' = [pc EXCEPT ![t] = IF req[t].kind = "r" THEN "read" ELSE "release"]
    /\ UNCHANGED <<active, tlock, req, inbuf, ctrl, handled, got, received, loop>>
    /\ UNCHANGED vars

\* line 136: self.read(read_length) takes what the controller sent back
ReadReply(t) ==
    /\ pc[t] = "read"
    /\ inbuf # <<>>
    /\ got' = [got EXCEPT ![t] = Head(inbuf)]
    /\ inbuf' = Tail(inbuf)
    /\ pc' = [pc EXCEPT ![t] = "release"]
    /\ UNCHANGED <<active, tlock, req, wire, ctrl, handled, received, loop>>
    /\ UNCHANGED vars

\* leaving the with block: the lock is free again, the call returns
Release(t) ==
    /\ pc[t] = "release"
    /\ tlock' = IF tlock = t THEN 0 ELSE tlock
    /\ pc' = [pc EXCEPT ![t] = "idle"]
    /\ UNCHANGED <<active, req, wire, inbuf, ctrl, handled, got, received, loop>>
    /\ UNCHANGED vars

\* the controller takes the next frame off the line: 'c' makes its target the
\* active one, 'w' and 'r' go to whatever is active, 'r' is answered
Deliver ==
    /\ wire # <<>>
    /\ LET f == Head(wire)
       IN  /\ ctrl' = IF f.kind = "c" THEN f.target ELSE ctrl
           /\ handled' = IF f.kind = "c" THEN handled
                         ELSE [by |-> f.by, kind |-> f.kind,
                               target |-> Cached(f.target), at |-> Cached(ctrl),
                               mode |-> f.target.mode, atmode |-> ctrl.mode]
           /\ inbuf' = IF f.kind = "r" THEN Append(inbuf, f.by) ELSE inbuf
    /\ wire' = Tail(wire)
    /\ UNCHANGED <<active, tlock, pc, req, got, loop>>
    /\ UNCHANGED vars

Controller == Deliver /\ UNCHANGED received

\* the controller, with the chips keeping what they are handed
ChipController ==
    /\ Deliver
    /\ received' = IF Head(wire).kind = "w"
                   THEN [received EXCEPT ![ctrl.module] =
                            Append(@, [by |-> Head(wire).by, data |-> Head(wire).data])]
                   ELSE received

BusNext ==
    \/ \E t \in Threads : BusCall(t)
    \/ \E t \in Threads : Acquire(t)
    \/ \E t \in Threads : CheckActive(t)
    \/ \E t \in Threads : SendSelect(t)
    \/ \E t \in Threads : SetActiveModule(t)
    \/ \E t \in Threads : SetActiveChip(t)
    \/ \E t \in Threads : SetActiveSpeed(t)
    \/ \E t \in Threads : SendFrame(t)
    \/ \E t \in Threads : ReadReply(t)
    \/ \E t \in Threads : Release(t)
    \/ Controller

\* a rack created with use_locks=True, an S5i constructed on it, then threads
\* calling write_data and read_data
BusSpec == Init /\ [][BusNext]_<<vars, busVars>>

\* ------------------------------------------------------------------------
\* write_data and read_data called directly with any SPI mode: the same
\* module, chip and speed named with two different modes

CacheTargets ==
    {Target(Module, ADF4351Chip, ADF4351Mode, ADF4351Speed),
     Target(Module, ADF4351Chip, MAX521xMode, ADF4351Speed),
     Target(Module, MAX521xChip, MAX521xMode, MAX521xSpeed)}

CacheCall(t) == BusCallAmong(t, CacheTargets)

CacheNext ==
    \/ \E t \in Threads : CacheCall(t)
    \/ \E t \in Threads : Acquire(t)
    \/ \E t \in Threads : CheckActive(t)
    \/ \E t \in Threads : SendSelect(t)
    \/ \E t \in Threads : SetActiveModule(t)
    \/ \E t \in Threads : SetActiveChip(t)
    \/ \E t \in Threads : SetActiveSpeed(t)
    \/ \E t \in Threads : SendFrame(t)
    \/ \E t \in Threads : ReadReply(t)
    \/ \E t \in Threads : Release(t)
    \/ Controller

CacheSpec == Init /\ [][CacheNext]_<<vars, busVars>>

\* ------------------------------------------------------------------------
\* Two S5i instances on one rack, each called by a thread of its own:
\* thread 1 owns the instance of module Module (the one the variables of the
\* S5i describe), thread 2 an instance of module SecondModule constructed
\* with the defaults. sent, last, repeated and returned keep describing the
\* last completed call of the constructing thread.

\* set_frequency calls each thread makes
MaxCalls == 1

PairFrequencies == {20000, 370000}

PairModule(t) == IF t = 1 THEN Module ELSE SecondModule

S5iTarget(t) == Target(PairModule(t), ADF4351Chip, ADF4351Mode, ADF4351Speed)

PairStepsize(t) == IF t = 1 THEN stepsize ELSE DefaultStepsize

PairReference(t) == IF t = 1 THEN ref_frequency ELSE InternalRef

\* the registers of the thread's instance after lines 172-180; the second
\* instance has REG3 and REG5 as constructed, the other words are overwritten
PairRegisters(t, frequency) ==
    IF t = 1
    THEN GridRegisters(registers, GridPlan(frequency, stepsize, ref_frequency),
                       output_status)
    ELSE GridRegisters(FreshRegisters,
                       GridPlan(frequency, DefaultStepsize, InternalRef), DefaultEnable)

\* both instances are constructed by one thread, in either order, before the
\* threads start
PairInit ==
    \E frequency \in InitFrequencies, enable \in InitEnables, latest \in Threads :
        LET p == GridPlan(frequency, DefaultStepsize, InternalRef)
            regs == GridRegisters(FreshRegisters, p, enable)
        IN  /\ GridResult(frequency, DefaultStepsize, InternalRef) = "ok"
            /\ registers = regs
            /\ init_static = StaticBits(regs)
            /\ rf_frequency = Ratio(frequency, 1)
            /\ stepsize = DefaultStepsize
            /\ ref_frequency = InternalRef
            /\ use_external = 0
            /\ output_status = enable
            /\ rack_ref = None
            /\ plan = p
            /\ sent = <<PowerWrite(InitLevel)>> \o WriteRegisters(regs, 0)
            /\ last = Call("__init__", frequency, "ok")
            /\ repeated = FALSE
            /\ returned = None
            /\ active = Cached(S5iTarget(latest))
            /\ ctrl = S5iTarget(latest)
            /\ handled = [by |-> 0, kind |-> "w", target |-> Cached(S5iTarget(latest)),
                          at |-> Cached(S5iTarget(latest)),
                          mode |-> ADF4351Mode, atmode |-> ADF4351Mode]
            /\ tlock = 0
            /\ pc = [t \in Threads |-> "idle"]
            /\ req = [t \in Threads |-> None]
            /\ wire = <<>>
            /\ inbuf = <<>>
            /\ got = [t \in Threads |-> 0]
            /\ received = [m \in {Module, SecondModule} |-> <<>>]
            /\ loop = [t \in Threads |-> [calls |-> 0, todo |-> <<>>, done |-> <<>>]]

\* set_frequency lines 132-180 and the start of write_registers (line 61):
\* the checks pass, the instance stores its plan, the loop has six words to go
PairSetFrequency(t) ==
    /\ pc[t] = "idle"
    /\ loop[t].todo = <<>>
    /\ loop[t].calls < MaxCalls
    /\ \E frequency \in PairFrequencies :
           LET regs == PairRegisters(t, frequency)
           IN  /\ GridResult(frequency, PairStepsize(t), PairReference(t)) = "ok"
               /\ loop' = [loop EXCEPT ![t] =
                               [calls |-> loop[t].calls + 1,
                                todo |-> [k \in 1..NumRegisters |->
                                             Bytes(regs[NumRegisters - k])],
                                done |-> loop[t].done]]
               /\ IF t = 1
                  THEN /\ registers' = regs
                       /\ rf_frequency' = Ratio(frequency, 1)
                       /\ plan' = GridPlan(frequency, stepsize, ref_frequency)
                       /\ UNCHANGED <<stepsize, ref_frequency, use_external,
                                      output_status, rack_ref, sent, last, repeated,
                                      init_static, returned>>
                  ELSE UNCHANGED vars
    /\ UNCHANGED <<active, tlock, pc, req, wire, inbuf, ctrl, handled, got, received>>

\* lines 61-68: the loop takes its next word and enters write_data
PairWriteData(t) ==
    /\ pc[t] = "idle"
    /\ loop[t].todo # <<>>
    /\ req' = [req EXCEPT ![t] = [kind |-> "w", target |-> S5iTarget(t),
                                  data |-> Head(loop[t].todo)]]
    /\ loop' = [loop EXCEPT ![t] =
                    [calls |-> loop[t].calls,
                     todo |-> Tail(loop[t].todo),
                     done |-> Append(loop[t].done, Head(loop[t].todo))]]
    /\ pc' = [pc EXCEPT ![t] = "acquire"]
    /\ UNCHANGED <<active, tlock, wire, inbuf, ctrl, handled, got, received>>
    /\ UNCHANGED vars

PairNext ==
    \/ \E t \in Threads : PairSetFrequency(t)
    \/ \E t \in Threads : PairWriteData(t)
    \/ \E t \in Threads : Acquire(t)
    \/ \E t \in Threads : CheckActive(t)
    \/ \E t \in Threads : SendSelect(t)
    \/ \E t \in Threads : SetActiveModule(t)
    \/ \E t \in Threads : SetActiveChip(t)
    \/ \E t \in Threads : SetActiveSpeed(t)
    \/ \E t \in Threads : SendFrame(t)
    \/ \E t \in Threads : Release(t)
    \/ ChipController

PairSpec == PairInit /\ [][PairNext]_<<vars, busVars>>

\* ------------------------------------------------------------------------
\* Properties

InRange(frequency) == frequency >= MinFrequency /\ frequency <= MaxFrequency

FrequencyCalls == {"set_frequency", "set_frequency_optimally"}

\* the latest call was a frequency call that got as far as storing its plan
Committed == last.op \in FrequencyCalls /\ last.result \in {"ok", "HardwareError"}

\* the planned fields as the registers hold them
IntField == Field(registers[0], 15, 30)
PrescalerBit == Bit(registers[1], 27)
RField == Field(registers[2], 14, 23)
BandSelField == Field(registers[4], 12, 19)
DividerField == Field(registers[4], 20, 22)

\* C1: a set_frequency or set_frequency_optimally call that rejects its
\* argument with a ValueError (out of range, off the grid, INT out of bounds)
\* completes no write_data call and leaves registers, rf_frequency and
\* stepsize as they were before the call.
C1_RejectionChangesNothing ==
    [][(last'.op \in FrequencyCalls /\ last'.result = "ValueError")
         => /\ sent' = <<>>
            /\ registers' = registers
            /\ rf_frequency' = rf_frequency
            /\ stepsize' = stepsize]_vars

\* an in-range target that set_frequency rejected for the grid or for INT,
\* while the state holds another frequency
C1_Witness ==
    /\ last.op = "set_frequency" /\ last.result = "ValueError"
    /\ InRange(last.arg)
    /\ rf_frequency # Ratio(last.arg, 1)
    /\ sent = <<>>

\* C2: the planned fields of the registers (INT in REG0, prescaler in REG1, R
\* in REG2, divider and band select in REG4) are all those of one plan, the
\* latest plan that passed validation, each cut to the width of its field.
C2_RegistersHoldOnePlan ==
    /\ IntField = plan.INT % 2^16
    /\ PrescalerBit = plan.prescaler
    /\ RField = plan.R % 2^10
    /\ DividerField = plan.div
    /\ BandSelField = plan.band_sel

\* a rejected in-range set_frequency whose INT would have differed from the
\* one the registers keep
C2_Witness ==
    /\ last.op = "set_frequency" /\ last.result = "ValueError"
    /\ InRange(last.arg)
    /\ last.arg % stepsize = 0
    /\ last.arg \div stepsize # plan.INT

\* C3: a successful set_frequency, set_frequency_optimally or
\* enable_output_soft call completes exactly six write_data calls, all to chip
\* 0 of the module, carrying the bytes of registers[5], registers[4], ...,
\* registers[0] in that order, so REG0 goes last.
C3_SixWritesDescending ==
    (last.op \in FrequencyCalls \cup {"enable_output_soft"} /\ last.result = "ok")
        => /\ Len(sent) = 6
           /\ \A k \in 1..6 :
                 /\ sent[k].module = Module
                 /\ sent[k].chip = 0
                 /\ sent[k].data = Bytes(registers[6 - k])

\* a successful optimal call whose REG0 and REG5 words differ
C3_Witness ==
    /\ last.op = "set_frequency_optimally" /\ last.result = "ok"
    /\ Len(sent) = 6
    /\ sent[1].data # sent[6].data

\* C4: after every set_frequency(f) that stored its plan, the INT field of REG0
\* times stepsize is f and the R field of REG2 times stepsize is
\* ref_frequency.
C4_GridFieldsExact ==
    (last.op = "set_frequency" /\ Committed)
        => /\ IntField * stepsize = last.arg
           /\ RField * stepsize = ref_frequency

\* C5: every in-range target has a divider exponent n in 0..6 with 2^n * f in
\* the VCO range, and a stored plan carries the smallest such n in REG4.
C5_SmallestDivider ==
    (last.op \in FrequencyCalls /\ InRange(last.arg))
        => /\ \E n \in 0..6 : 2^n * last.arg >= VcoMin /\ 2^n * last.arg <= VcoMax
           /\ Committed =>
                 /\ 2^DividerField * last.arg >= VcoMin
                 /\ 2^DividerField * last.arg <= VcoMax
                 /\ \A m \in 0..(DividerField - 1) :
                        ~(2^m * last.arg >= VcoMin /\ 2^m * last.arg <= VcoMax)

\* a stored plan for a target that two exponents bring into the VCO range
C5_Witness ==
    /\ Committed
    /\ Cardinality(VcoHits(last.arg)) = 2
    /\ DividerField = 5

\* the reference a stored plan was made with
PlanReference == IF last.op = "set_frequency" THEN ref_frequency ELSE rack_ref

\* C6: every stored plan has band_select in 1..255 and
\* reference / R / band_select <= max_pfd.
C6_BandSelectKeepsPfd ==
    Committed
        => /\ BandSelField >= 1 /\ BandSelField <= BandSelMax
           /\ PlanReference <= MaxPfd * plan.R * BandSelField

\* C7: in every stored plan the prescaler bit is 1 exactly when the target is
\* at or above the threshold, and the INT field is at least 75 with the bit
\* set and at least 23 without; set_frequency(3.7 GHz) that stores a plan has
\* the bit set and INT >= 75.
C7_PrescalerAndNmin ==
    Committed
        => /\ PrescalerBit = 1 <=> last.arg >= PrescalerThreshold
           /\ PrescalerBit = 1 => IntField >= NminHigh
           /\ PrescalerBit = 0 => IntField >= NminLow

\* C8: set_frequency(f) straight after set_frequency(f) leaves the six words
\* as the first call left them, and when both calls succeed the second
\* transmits what the first transmitted.
C8_RepeatedSetFrequency ==
    [][(repeated' /\ last'.op = "set_frequency")
          => /\ registers' = registers
             /\ (last.result = "ok" /\ last'.result = "ok") => sent' = sent]_vars

\* two successful set_frequency calls in a row with the same target
C8_Witness ==
    /\ repeated
    /\ last.op = "set_frequency" /\ last.result = "ok"
    /\ Len(sent) = 6

\* C9: every register bit outside the dynamic fields keeps the value it had
\* after construction.
C9_StaticBitsKept == StaticBits(registers) = init_static

\* C10: set_frequency_optimally with an in-range target never raises out of
\* its planning: it stores a plan.
C10_OptimalNeverRaises ==
    (last.op = "set_frequency_optimally" /\ InRange(last.arg)) => Committed

\* C11: a set_frequency_optimally call that ends without exception hands back
\* INT * reference / R, formed from the INT field of REG0 and the R field of
\* REG2, and rf_frequency holds that same value.
C11_ReturnsActualFrequency ==
    (last.op = "set_frequency_optimally" /\ last.result = "ok")
        => /\ returned # None
           /\ returned = Ratio(IntField * rack_ref, RField)
           /\ rf_frequency = returned

\* the latest call was a set_frequency_optimally that stored its plan
Searched == last.op = "set_frequency_optimally" /\ last.result \in {"ok", "HardwareError"}

\* N * reference / target is an integer
Exact(n, frequency, fref) == (n * fref) % frequency = 0

\* C12: when some N in Nmin..Nmax makes N * reference / target an integer R,
\* set_frequency_optimally stores the smallest such N with that R, and
\* rf_frequency is the target itself.
C12_ExactWhenReachable ==
    (Searched /\ \E n \in Nmin(last.arg)..Nmax(last.arg, rack_ref) :
                     Exact(n, last.arg, rack_ref))
        => /\ Exact(plan.INT, last.arg, rack_ref)
           /\ \A m \in Nmin(last.arg)..(plan.INT - 1) : ~Exact(m, last.arg, rack_ref)
           /\ plan.R * last.arg = plan.INT * rack_ref
           /\ rf_frequency = Ratio(last.arg, 1)

\* C19: set_frequency_optimally stores the first N of Nmin..Nmax, Nmax
\* included, whose N * reference / target is nearest to an integer, with R
\* that integer.
C19_SearchIncludesNmax ==
    Searched
        => /\ plan.INT \in Nmin(last.arg)..Nmax(last.arg, rack_ref)
           /\ \A n \in Nmin(last.arg)..Nmax(last.arg, rack_ref) :
                  /\ Deviation(plan.INT, last.arg, rack_ref) <= Deviation(n, last.arg, rack_ref)
                  /\ n < plan.INT
                        => Deviation(plan.INT, last.arg, rack_ref) < Deviation(n, last.arg, rack_ref)
           /\ plan.R = Around(plan.INT, last.arg, rack_ref)

\* reference / step is an integer below 1024
StepFits(step, ref) ==
    IF ref = None \/ step = 0 THEN FALSE ELSE ref % step = 0 /\ ref \div step < RLimit

\* C13: set_stepsize(s) stores s when ref_frequency / s is an integer below
\* 1024 and otherwise raises and keeps stepsize; either way it completes no
\* write_data call and leaves registers and rf_frequency alone.
C13_StepsizeStoredIffFits ==
    [][last'.op = "set_stepsize"
          => /\ sent' = <<>>
             /\ registers' = registers
             /\ rf_frequency' = rf_frequency
             /\ StepFits(last'.arg, ref_frequency)
                    => last'.result = "ok" /\ stepsize' = last'.arg
             /\ ~StepFits(last'.arg, ref_frequency)
                    => last'.result # "ok" /\ stepsize' = stepsize]_vars

\* a stepsize that divides the reference but was refused because the quotient
\* is 1024 or more, the stepsize of before still in place
C13_Witness ==
    /\ last.op = "set_stepsize" /\ last.result = "ValueError"
    /\ last.arg # 0 /\ ref_frequency % last.arg = 0
    /\ stepsize # last.arg

\* C14: set_frequency called while ref_frequency / stepsize is not an integer
\* below 1024 raises from its checks and completes no write_data call.
C14_SetFrequencyChecksRatio ==
    [][(last'.op = "set_frequency" /\ ~StepFits(stepsize, ref_frequency))
          => /\ last'.result \notin {"ok", "HardwareError"}
             /\ sent' = <<>>]_vars

\* set_frequency(1 GHz) was called with stepsize 1 MHz and reference 10 MHz,
\* and no write_data call raised
OneGigahertzOnDefaultGrid ==
    /\ last.op = "set_frequency" /\ last.arg = 100000
    /\ stepsize = 100 /\ ref_frequency = 1000
    /\ last.result # "HardwareError"

\* C15 as stated: set_frequency(1e9) with stepsize 1 MHz and reference
\* 10 MHz succeeds and leaves 100 in the INT field of REG0.
C15_IntFieldIs100 ==
    OneGigahertzOnDefaultGrid => last.result = "ok" /\ IntField = 100

\* C15 amended: set_frequency(1e9) with stepsize 1 MHz and reference 10 MHz
\* succeeds and leaves 1000 = 1e9 / 1e6 in the INT field of REG0 (and
\* 10 = 10e6 / 1e6 in the R field of REG2).
C15_IntFieldIs1000 ==
    OneGigahertzOnDefaultGrid
        => last.result = "ok" /\ IntField = 1000 /\ RField = 10

\* the call was made and all six words went out, REG0 carrying 1000 << 15
C15_Witness ==
    /\ OneGigahertzOnDefaultGrid /\ last.result = "ok"
    /\ Len(sent) = 6
    /\ sent[6].data = Bytes(Shl(1000, 15))

C17_ReferenceDivisorInRange ==
    /\ plan.R >= 1 /\ plan.R < RLimit
    /\ RField = plan.R
    /\ registers[2].hi \div 2^8 = 0
    /\ ref_frequency # None
          => /\ StepFits(stepsize, ref_frequency)
             /\ ref_frequency \div stepsize >= 1

\* C18: every stored plan has INT <= 65535, INT << 15 stays within bits 15..30
\* of REG0, and each of the six words is below 2^32.
C18_WordsFitThirtyTwoBits ==
    /\ Committed => plan.INT <= IntMax /\ registers[0].hi < 2^15
    /\ \A i \in 0..(NumRegisters - 1) : registers[i].hi < 2^16

C21_Reg3Reg5Untouched ==
    /\ registers[3] = Or(Or(Shl(1, 22), Shl(1, 21)), Lit(3))
    /\ registers[5] = Or(Or(Shl(1, 22), Shl(3, 19)), Lit(5))

\* set_output_power went through after the frequency and the output enable
\* had both been changed
C21_Witness ==
    /\ last.op = "set_output_power" /\ last.result = "ok"
    /\ Len(sent) = 1
    /\ rf_frequency.num # 10000
    /\ Bit(registers[4], 5) = 1
    /\ stepsize # DefaultStepsize

\* C22: bit 5 of REG4 equals output_status in every state, also after a call
\* whose transmission broke off.
C22_EnableBitIsOutputStatus == Bit(registers[4], 5) = output_status

\* C23: ref_frequency is a number greater than 0 in every state.
C23_ReferenceIsPositive == ref_frequency # None /\ ref_frequency > 0

\* the operations that end in write_registers
WritingCalls == FrequencyCalls \cup {"enable_output_soft"}

\* C24: when write_data raises at the k-th word, the call ends with that
\* exception, exactly the k - 1 words before it were sent, each once and in the
\* order REG5 downwards, and a call that sent fewer than six words did not
\* end normally.
C24_FailurePropagatesNoRetry ==
    (last.op \in WritingCalls /\ last.result \in {"ok", "HardwareError"})
        => /\ Len(sent) <= NumRegisters
           /\ \A k \in 1..Len(sent) : sent[k].data = Bytes(registers[NumRegisters - k])
           /\ last.result = "HardwareError" <=> Len(sent) < NumRegisters

\* the last of the six write_data calls raised: five words are out, REG0 is not
C24_Witness ==
    /\ last.op = "set_frequency" /\ last.result = "HardwareError"
    /\ Len(sent) = 5
    /\ sent[5].data = Bytes(registers[1])

\* four bytes put together again, the first one highest
FromBytes(d) == [hi |-> d[1] * 256 + d[2], lo |-> d[3] * 256 + d[4]]

\* C25: the four bytes sent for a register word below 2^32 are its bits
\* 31..24, 23..16, 15..8 and 7..0 in that order, and put together big-endian
\* they give the word back.
C25_FourBytesBigEndian ==
    (last.op \in WritingCalls /\ last.result \in {"ok", "HardwareError"})
        => \A k \in 1..Len(sent) :
              LET w == registers[NumRegisters - k]
                  d == sent[k].data
              IN  w.hi < 2^16
                     => /\ d = <<Field(w, 24, 31), Field(w, 16, 23),
                                 Field(w, 8, 15), Field(w, 0, 7)>>
                        /\ FromBytes(d) = w

\* six words went out, the last of them (REG0) with bit 31 and bit 15 set
C25_Witness ==
    /\ last.op \in WritingCalls /\ last.result = "ok"
    /\ Len(sent) = 6
    /\ sent[6].data = <<128, 0, 128, 0>>
    /\ sent[1].data = <<0, 88, 0, 5>>

\* C26: with the lock, what the chip of each module has been handed is, word
\* for word, what the thread of that module's instance gave to write_data and
\* nothing of the other thread; those words come in rounds of REG5..REG0, for
\* the first instance they are its registers, and once a thread's call is over
\* and the line is drained its chip has all six of them.
C26_EachChipGetsItsOwnWords ==
    \A t \in Threads :
        LET r == received[PairModule(t)]
            d == loop[t].done
        IN  /\ Len(r) <= Len(d)
            /\ \A i \in 1..Len(r) : r[i] = [by |-> t, data |-> d[i]]
            /\ \A i \in 1..Len(d) :
                   Field(FromBytes(d[i]), 0, 2)
                       = (NumRegisters - 1) - ((i - 1) % NumRegisters)
            /\ \A i \in 1..Len(d) :
                   (t = 1 /\ i > NumRegisters * (loop[t].calls - 1))
                       => d[i] = Bytes(registers[(NumRegisters - 1)
                                                    - ((i - 1) % NumRegisters)])
            /\ (pc[t] = "idle" /\ loop[t].todo = <<>> /\ wire = <<>>)
                   => Len(r) = NumRegisters * loop[t].calls

\* each chip has three of its words while thread 1, between two write_data
\* calls of its loop, waits for the lock thread 2 holds
C26_Witness ==
    /\ Len(received[Module]) = 3
    /\ Len(received[SecondModule]) = 3
    /\ pc[1] = "acquire"
    /\ tlock = 2

\* the target of the last 'c' frame written to the serial port
LastSelect ==
    LET cs == {i \in 1..Len(wire) : wire[i].kind = "c"}
    IN  IF cs = {} THEN ctrl
        ELSE wire[CHOOSE i \in cs : \A j \in cs : j <= i].target

\* between calls the cache is the last select sent; a call sends a select
\* exactly when its module, chip or speed differs from the cache; every data
\* frame is handled under the module, chip and speed its caller named
CacheFollowsSelects ==
    /\ (\A t \in Threads : pc[t] = "idle") => active = Cached(LastSelect)
    /\ \A t \in Threads : pc[t] = "select" => active # Cached(req[t].target)
    /\ \A t \in Threads : pc[t] = "frame" => active = Cached(req[t].target)
    /\ handled.at = handled.target

\* C27: the cache equals the last select frame sent, a select is sent exactly
\* when the requested module, chip or speed differs from the cache, and every
\* data frame is handled while the controller has the module, chip, SPI mode
\* and speed its caller asked for.
C27_FramesUnderRequestedConfiguration ==
    /\ CacheFollowsSelects
    /\ handled.atmode = handled.mode

\* C28: in every state after construction the three lowest bits of
\* registers[i] are i, for each of the six registers.
C28_AddressBits ==
    \A i \in 0..(NumRegisters - 1) : Field(registers[i], 0, 2) = i

\* enable_output_soft has gone through after a frequency call replaced the
\* plan of the constructor
C28_Witness ==
    /\ last.op = "enable_output_soft" /\ last.result = "ok"
    /\ plan.INT # 100
    /\ Field(registers[4], 0, 2) = 4

\* C29: a set_frequency_optimally call that got as far as its registers has
\* planned with the instance's own ref_frequency, the one set_frequency and
\* set_stepsize use: INT and R are the search's result for that reference,
\* band_sel is derived from it and rf_frequency is INT * ref_frequency / R.
C29_PlansWithSelectedReference ==
    (/\ last.op = "set_frequency_optimally"
     /\ last.result \in {"ok", "HardwareError"}
     /\ ref_frequency # None)
        => /\ plan.INT = PlanFor(last.arg, ref_frequency).INT
           /\ plan.R = PlanFor(last.arg, ref_frequency).R
           /\ plan.band_sel = BandSelect(ref_frequency, plan.R)
           /\ rf_frequency = Ratio(plan.INT * ref_frequency, plan.R)

====
